---- MODULE Spec2Model ----
(***************************************************************************)
(* MessageClassGenerator of packages/plugin/src/code-gen/                  *)
(* message-class-generator.ts: the constructor-based class generated for a *)
(* protobuf message.  One generator instance, one source file, and the     *)
(* activations of generateMessageClass that run on them.                   *)
(***************************************************************************)
EXTENDS Integers, Sequences, FiniteSets, TLC

\* Longest field list of the message under generation.
MaxFields == 3
\* Number of generateMessageClass invocations the driver makes.
MaxCalls == 2

\* JavaScript's undefined.
None == "None"

\* Activation records of generateMessageClass that may be live together.
Frames == {1, 2}

(***************************************************************************)
(* rt.ScalarType and rt.LongType                                           *)
(***************************************************************************)
LongScalarTypes == {"INT64", "UINT64", "SINT64", "FIXED64", "SFIXED64"}

NumberScalarTypes ==
    {"DOUBLE", "FLOAT", "INT32", "FIXED32", "UINT32", "SFIXED32", "SINT32"}

ScalarTypes ==
    {"BOOL", "STRING", "BYTES"} \cup NumberScalarTypes \cup LongScalarTypes

\* Key kinds a protobuf map may have: every integer kind, bool and string.
MapKeyTypes == ScalarTypes \ {"DOUBLE", "FLOAT", "BYTES"}

LongTypes == {"STRING", "NUMBER", "BIGINT"}

FieldKinds == {"scalar", "enum", "message", "map"}

(***************************************************************************)
(* TypeScript nodes, as the ts.create... factories build them              *)
(***************************************************************************)
KeywordTypeNode(name) == [node |-> "keyword", name |-> name]

TypeReferenceNode(name) == [node |-> "reference", name |-> name]

ArrayTypeNode(elem) == [node |-> "array", elem |-> elem]

LiteralTypeNode(text) == [node |-> "literal", text |-> text]

\* { [key: keyType]: valueType }
IndexSignatureLiteral(keyType, valueType) ==
    [node |-> "indexLiteral", key |-> keyType, value |-> valueType]

PropertySignature(name, optional, type) ==
    [name |-> name, optional |-> optional, type |-> type]

TypeLiteralNode(members) == [node |-> "typeLiteral", members |-> members]

UnionTypeNode(cases) == [node |-> "union", cases |-> cases]

\* An exception leaving the function that was to return a node.
Thrown(error) == [node |-> "throw", error |-> error]

IsThrown(n) == n.node = "throw"

Range(s) == {s[j] : j \in DOMAIN s}

\* The least element of a non-empty set of positions.
First(hits) == CHOOSE j \in hits : \A h \in hits : j <= h

\* fields.find(descField => descField.number === number): the position of the
\* first such descriptor field, or 0 for undefined.
findDescField(fields, number) ==
    LET hits == {j \in DOMAIN fields : fields[j].number = number}
    IN  IF hits = {} THEN 0 ELSE First(hits)

\* fields.find(fi => fi.no === no): the position of the first such field
\* metadata, or 0 for undefined.
findFieldInfo(fields, no) ==
    LET hits == {j \in DOMAIN fields : fields[j].no = no}
    IN  IF hits = {} THEN 0 ELSE First(hits)

VARIABLES
    options,       \* this.options: oneofKindDiscriminator, normalLongType
    descriptors,   \* typeName -> DescMessage.fields (DescField records)
    interpreter,   \* typeName -> interpreterType.fields (rt.FieldInfo records)
    frame,         \* per activation: position, argument and locals
    statements,    \* the statements of the TypescriptFile `source`
    thrown,        \* the errors that reached the driver
    calls          \* invocations started so far

vars == <<options, descriptors, interpreter, frame, statements, thrown, calls>>


(***************************************************************************)
(* Collaborators the generator only calls                                  *)
(***************************************************************************)
\* this.imports.typeByName(source, typeName): the identifier the type is
\* known by in the source file.
typeByName(typeName) == [import |-> typeName]

\* this.imports.type(source, descMessage, 'message-class'): the identifier
\* registered for the message's constructor-based class.
importsType(typeName) == [symbol |-> typeName, kind |-> "message-class"]

\* source.addStatement(statement): the statement goes to the end of the file.
addStatement(file, statement) == Append(file, statement)

\* A DescOneof of message typeName: its name, its parent and its fields in
\* declaration order.
DescOneofOf(typeName, name) ==
    [name   |-> name,
     parent |-> typeName,
     fields |-> SelectSeq(descriptors[typeName], LAMBDA d : d.oneof = name)]

(***************************************************************************)
(* Type resolution                                                         *)
(***************************************************************************)
NoNode == [node |-> "undefined"]

\* createScalarTypeNode without a bigint case: BIGINT falls to number.
createScalarTypeNodeBigintAsNumber(scalarType, longType) ==
    CASE scalarType = "BOOL" -> KeywordTypeNode("boolean")
      [] scalarType = "STRING" -> KeywordTypeNode("string")
      [] scalarType = "BYTES" -> TypeReferenceNode("Uint8Array")
      [] scalarType \in NumberScalarTypes -> KeywordTypeNode("number")
      [] scalarType \in LongScalarTypes ->
            LET l == IF longType = None THEN "STRING" ELSE longType
            IN  CASE l = "STRING" -> KeywordTypeNode("string")
                  [] OTHER -> KeywordTypeNode("number")
      [] OTHER -> NoNode

createScalarTypeNode(scalarType, longType) ==
    CASE scalarType = "BOOL" -> KeywordTypeNode("boolean")
      [] scalarType = "STRING" -> KeywordTypeNode("string")
      [] scalarType = "BYTES" -> TypeReferenceNode("Uint8Array")
      [] scalarType \in NumberScalarTypes -> KeywordTypeNode("number")
      [] scalarType \in LongScalarTypes ->
            LET l == IF longType = None THEN "STRING" ELSE longType
            IN  CASE l = "STRING" -> KeywordTypeNode("string")
                  [] l = "NUMBER" -> KeywordTypeNode("number")
                  [] l = "BIGINT" -> KeywordTypeNode("bigint")
                  [] OTHER -> NoNode
      [] OTHER -> NoNode

createMessageTypeNode(typeName) == TypeReferenceNode(typeByName(typeName))

createEnumTypeNode(enumTypeName) == TypeReferenceNode(typeByName(enumTypeName))

\* mapKeyTypeNode with the key resolved under the configured normalLongType.
mapKeyTypeNodeByNormalLongType(fieldInfo) ==
    IF fieldInfo.K = "BOOL"
    THEN KeywordTypeNode("string")
    ELSE createScalarTypeNode(fieldInfo.K, options.normalLongType)

\* The key type of a map field.
mapKeyTypeNode(fieldInfo) ==
    IF fieldInfo.K = "BOOL"
    THEN KeywordTypeNode("string")
    ELSE createScalarTypeNode(fieldInfo.K, "STRING")

\* The value type of a map field; the inner switch has no default.
mapValueTypeNode(fieldInfo) ==
    CASE fieldInfo.V.kind = "scalar" ->
            createScalarTypeNode(fieldInfo.V.T, fieldInfo.V.L)
      [] fieldInfo.V.kind = "enum" -> createEnumTypeNode(fieldInfo.V.T)
      [] fieldInfo.V.kind = "message" -> createMessageTypeNode(fieldInfo.V.T)
      [] OTHER -> NoNode

\* The switch over fieldInfo.kind.
createBaseTypeNode(fieldInfo) ==
    CASE fieldInfo.kind = "scalar" ->
            createScalarTypeNode(fieldInfo.T, fieldInfo.L)
      [] fieldInfo.kind = "enum" -> createEnumTypeNode(fieldInfo.T)
      [] fieldInfo.kind = "message" -> createMessageTypeNode(fieldInfo.T)
      [] fieldInfo.kind = "map" ->
            IndexSignatureLiteral(mapKeyTypeNode(fieldInfo),
                                  mapValueTypeNode(fieldInfo))
      [] OTHER -> Thrown("unknown kind")

\* createTypeNode that also wraps an optional field.
createTypeNodeOptionalAsArray(fieldInfo) ==
    LET type == createBaseTypeNode(fieldInfo)
    IN  IF IsThrown(type) THEN type
        ELSE IF fieldInfo.repeat \/ fieldInfo.opt THEN ArrayTypeNode(type)
        ELSE type

createTypeNode(fieldInfo) ==
    LET type == createBaseTypeNode(fieldInfo)
    IN  IF IsThrown(type) THEN type
        ELSE IF fieldInfo.repeat THEN ArrayTypeNode(type)
        ELSE type

(***************************************************************************)
(* Oneof groups                                                            *)
(***************************************************************************)
oneofInfo(descOneof) ==
    LET parent == descOneof.parent
        interpreterType == interpreter[parent]
        sampleField == descOneof.fields[1]
        s == findFieldInfo(interpreterType, sampleField.number)
    IN  IF s = 0 THEN Thrown("assert sampleFieldInfo")
        ELSE IF interpreterType[s].oneof = None THEN Thrown("assert oneofName")
        ELSE [node            |-> "oneofInfo",
              parent          |-> parent,
              interpreterType |-> interpreterType,
              oneofName       |-> interpreterType[s].oneof]

\* One selection case of the union: { <discriminator>: 'name'; name: type }.
oneofCase(parentMessageDesc, fieldInfo) ==
    LET kindProperty ==
            PropertySignature(options.oneofKindDiscriminator, FALSE,
                              LiteralTypeNode(fieldInfo.localName))
        d == findDescField(descriptors[parentMessageDesc], fieldInfo.no)
        typeNode == createTypeNode(fieldInfo)
    IN  IF d = 0 THEN Thrown("assert descField")
        ELSE IF IsThrown(typeNode) THEN typeNode
        ELSE TypeLiteralNode(
                <<kindProperty,
                  PropertySignature(fieldInfo.localName, fieldInfo.opt, typeNode)>>)

\* The case for no selection: { <discriminator>: undefined }.
emptyCase ==
    TypeLiteralNode(
        <<PropertySignature(options.oneofKindDiscriminator, FALSE,
                            KeywordTypeNode("undefined"))>>)

\* createOneofADTTypeNode with the case for no selection pushed first.
createOneofADTTypeNodeEmptyFirst(descOneof) ==
    LET info == oneofInfo(descOneof)
    IN  IF IsThrown(info) THEN info
        ELSE
        LET memberFieldInfos ==
                SelectSeq(info.interpreterType,
                          LAMBDA fi : fi.oneof = info.oneofName)
            oneofCases ==
                [j \in 1..Len(memberFieldInfos) |->
                    oneofCase(info.parent, memberFieldInfos[j])]
            failed == {j \in DOMAIN oneofCases : IsThrown(oneofCases[j])}
        IN  IF failed # {}
            THEN oneofCases[First(failed)]
            ELSE UnionTypeNode(<<emptyCase>> \o oneofCases)

createOneofADTTypeNode(descOneof) ==
    LET info == oneofInfo(descOneof)
    IN  IF IsThrown(info) THEN info
        ELSE
        LET memberFieldInfos ==
                SelectSeq(info.interpreterType,
                          LAMBDA fi : fi.oneof = info.oneofName)
            oneofCases ==
                [j \in 1..Len(memberFieldInfos) |->
                    oneofCase(info.parent, memberFieldInfos[j])]
            failed == {j \in DOMAIN oneofCases : IsThrown(oneofCases[j])}
        IN  IF failed # {}
            THEN oneofCases[First(failed)]
            ELSE UnionTypeNode(Append(oneofCases, emptyCase))

(***************************************************************************)
(* generateMessageClass                                                    *)
(***************************************************************************)
IdleFrame ==
    [pc |-> "idle", descMessage |-> None, i |-> 0,
     processedOneofs |-> <<>>, ctorParams |-> <<>>]

\* ts.createParameter with the public and readonly modifiers.
createParameter(name, questionToken, type) ==
    [modifiers     |-> <<"public", "readonly">>,
     name          |-> name,
     questionToken |-> questionToken,
     type          |-> type]

\* processedOneofs.includes(name) that never finds the name.
processedIncludesNever(k, name) == FALSE

\* processedOneofs.includes(name) on a list the generator instance keeps for
\* all its activations.
processedIncludesShared(k, name) ==
    \E j \in Frames : name \in Range(frame[j].processedOneofs)

\* processedOneofs.includes(name), on the activation's own list.
processedIncludes(k, name) == name \in Range(frame[k].processedOneofs)

\* No question token, whatever fieldInfo.opt.
questionTokenNever(fieldInfo) == FALSE

\* fieldInfo.opt ? QuestionToken : undefined
questionTokenOf(fieldInfo) == fieldInfo.opt

\* One iteration of the loop over interpreterType.fields: the activation's
\* locals after it, or the error it throws.
loopBody(k) ==
    LET f == frame[k]
        fieldInfo == interpreter[f.descMessage][f.i]
        d == findDescField(descriptors[f.descMessage], fieldInfo.no)
        descField == descriptors[f.descMessage][d]
        next == [f EXCEPT !.i = @ + 1]
    IN  IF d = 0 THEN Thrown("assert descField")
        ELSE IF fieldInfo.oneof # None /\ descField.oneof # None
        THEN IF processedIncludes(k, fieldInfo.oneof)
             THEN [node |-> "continue", frame |-> next]
             ELSE
             LET descOneof == DescOneofOf(f.descMessage, descField.oneof)
                 info == oneofInfo(descOneof)
                 oneofType == createOneofADTTypeNode(descOneof)
             IN  IF IsThrown(info) THEN info
                 ELSE IF IsThrown(oneofType) THEN oneofType
                 ELSE [node |-> "pushed",
                       frame |->
                         [next EXCEPT
                            !.ctorParams =
                                Append(@, createParameter(info.oneofName, FALSE,
                                                          oneofType)),
                            !.processedOneofs = Append(@, fieldInfo.oneof)]]
        ELSE
        LET type == createTypeNode(fieldInfo)
        IN  IF IsThrown(type) THEN type
            ELSE [node |-> "pushed",
                  frame |->
                    [next EXCEPT
                       !.ctorParams =
                           Append(@, createParameter(fieldInfo.localName,
                                                     questionTokenOf(fieldInfo),
                                                     type))]]

\* Entry with ctorParams kept by the generator instance: it still holds the
\* parameters of the class generated last.
CallKeepsParams(k, typeName) ==
    /\ calls < MaxCalls
    /\ frame[k].pc = "idle"
    /\ frame' = [frame EXCEPT ![k] =
                    [pc |-> "loop", descMessage |-> typeName, i |-> 1,
                     processedOneofs |-> <<>>,
                     ctorParams |->
                        IF statements = <<>> THEN <<>>
                        ELSE statements[Len(statements)].members[1].parameters]]
    /\ calls' = calls + 1
    /\ UNCHANGED <<options, descriptors, interpreter, statements, thrown>>

\* Entry: interpreterType is looked up and the three locals start empty.
Call(k, typeName) ==
    /\ calls < MaxCalls
    /\ frame[k].pc = "idle"
    /\ frame' = [frame EXCEPT ![k] =
                    [pc |-> "loop", descMessage |-> typeName, i |-> 1,
                     processedOneofs |-> <<>>, ctorParams |-> <<>>]]
    /\ calls' = calls + 1
    /\ UNCHANGED <<options, descriptors, interpreter, statements, thrown>>

\* One field of the for loop; an error unwinds the activation to the driver.
Step(k) ==
    /\ frame[k].pc = "loop"
    /\ frame[k].i <= Len(interpreter[frame[k].descMessage])
    /\ LET r == loopBody(k)
       IN  IF IsThrown(r)
           THEN /\ frame' = [frame EXCEPT ![k] = IdleFrame]
                /\ thrown' = Append(thrown,
                                    [descMessage |-> frame[k].descMessage,
                                     at |-> frame[k].i, error |-> r.error])
           ELSE /\ frame' = [frame EXCEPT ![k] = r.frame]
                /\ UNCHANGED thrown
    /\ UNCHANGED <<options, descriptors, interpreter, statements, calls>>

\* The end of the invocation with a class added only if the file holds none of
\* that name yet.
FinishOnce(k) ==
    /\ frame[k].pc = "loop"
    /\ frame[k].i > Len(interpreter[frame[k].descMessage])
    /\ LET members == <<[node |-> "constructor",
                         parameters |-> frame[k].ctorParams]>>
           statement == [node      |-> "class",
                         modifiers |-> <<"export">>,
                         name      |-> importsType(frame[k].descMessage),
                         members   |-> members]
       IN  statements' =
              IF \E c \in DOMAIN statements : statements[c].name = statement.name
              THEN statements
              ELSE addStatement(statements, statement)
    /\ frame' = [frame EXCEPT ![k] = IdleFrame]
    /\ UNCHANGED <<options, descriptors, interpreter, thrown, calls>>

\* After the loop: the constructor, the class declaration, addStatement and
\* the return of the statement just added.
Finish(k) ==
    /\ frame[k].pc = "loop"
    /\ frame[k].i > Len(interpreter[frame[k].descMessage])
    /\ LET members == <<[node |-> "constructor",
                         parameters |-> frame[k].ctorParams]>>
           statement == [node      |-> "class",
                         modifiers |-> <<"export">>,
                         name      |-> importsType(frame[k].descMessage),
                         members   |-> members]
       IN  statements' = addStatement(statements, statement)
    /\ frame' = [frame EXCEPT ![k] = IdleFrame]
    /\ UNCHANGED <<options, descriptors, interpreter, thrown, calls>>

Next ==
    \/ \E k \in Frames : \E typeName \in DOMAIN interpreter : Call(k, typeName)
    \/ \E k \in Frames : Step(k)
    \/ \E k \in Frames : Finish(k)

(***************************************************************************)
(* Inputs: the descriptors the driver hands in and the field metadata the  *)
(* Interpreter derives from them                                           *)
(***************************************************************************)
DescOneofNames == {"selector", "alt_choice"}

\* The runtime local name of a oneof (lowerCamelCase of its proto name).
oneofLocalName(name) ==
    CASE name = "selector" -> "selector"
      [] name = "alt_choice" -> "altChoice"
      [] OTHER -> None

NoValue == [kind |-> None, T |-> None, jstype |-> None]

\* The long representation the Interpreter stores in FieldInfo.L: the field's
\* own jstype if it has one, else the configured normalLongType; STRING, the
\* representation an absent L stands for, is left out.
determineLongType(T, jstype, normalLongType) ==
    IF T \notin LongScalarTypes THEN None
    ELSE LET l == IF jstype # None THEN jstype ELSE normalLongType
         IN  IF l = "STRING" THEN None ELSE l

\* Interpreter.getMessageType(...).fields for the descriptor fields `fields`.
getMessageType(fields, normalLongType) ==
    [j \in DOMAIN fields |->
        LET d == fields[j]
        IN  [no        |-> d.number,
             localName |-> d.localName,
             kind      |-> d.kind,
             T         |-> d.T,
             L         |-> determineLongType(d.T, d.jstype, normalLongType),
             K         |-> d.K,
             V         |-> [kind |-> d.V.kind,
                            T    |-> d.V.T,
                            L    |-> determineLongType(d.V.T, d.V.jstype,
                                                       normalLongType)],
             repeat    |-> d.repeated,
             opt       |-> d.optional,
             oneof     |-> IF d.oneof = None THEN None
                           ELSE oneofLocalName(d.oneof)]]

\* The field declared at position j of a message built like the Shape
\* message: width, area, label, anchor.
ShapeAt(j) ==
    CASE j = 1 -> [localName |-> "width", kind |-> "scalar", T |-> "INT32"]
      [] j = 2 -> [localName |-> "area", kind |-> "scalar", T |-> "UINT64"]
      [] j = 3 -> [localName |-> "label", kind |-> "scalar", T |-> "STRING"]
      [] j = 4 -> [localName |-> "anchor", kind |-> "message", T |-> "Point"]
      [] OTHER -> [localName |-> "extra", kind |-> "enum", T |-> "Color"]

StructField(j, optional, oneof) ==
    [number    |-> j,
     localName |-> ShapeAt(j).localName,
     kind      |-> ShapeAt(j).kind,
     T         |-> ShapeAt(j).T,
     jstype    |-> None,
     K         |-> None,
     V         |-> NoValue,
     repeated  |-> FALSE,
     optional  |-> optional,
     oneof     |-> oneof]

\* message Shape { int32 width; uint64 area;
\*                 oneof selector { string label; Point anchor; } }
Shape ==
    <<StructField(1, FALSE, None), StructField(2, FALSE, None),
      StructField(3, FALSE, "selector"), StructField(4, FALSE, "selector")>>

\* Messages of up to MaxFields fields, each optional or not and in no oneof
\* or in one of two.
StructMessages ==
    UNION {{[j \in 1..n |-> StructField(j, c[j][1], c[j][2])] :
              c \in [1..n -> BOOLEAN \X ({None} \cup DescOneofNames)]} :
           n \in 0..MaxFields}

TypeField(kind, T, jstype, K, V, repeated, optional) ==
    [number    |-> 1,
     localName |-> "value",
     kind      |-> kind,
     T         |-> T,
     jstype    |-> jstype,
     K         |-> K,
     V         |-> V,
     repeated  |-> repeated,
     optional  |-> optional,
     oneof     |-> None]

JsTypesOf(T) == IF T \in LongScalarTypes THEN {None} \cup LongTypes ELSE {None}

\* repeated and optional (presence-tracked singular) exclude each other.
Labels == {<<FALSE, FALSE>>, <<TRUE, FALSE>>, <<FALSE, TRUE>>}

MapValues ==
    {[kind |-> "scalar", T |-> "STRING", jstype |-> None],
     [kind |-> "enum", T |-> "Color", jstype |-> None],
     [kind |-> "message", T |-> "Point", jstype |-> None]}
    \cup {[kind |-> "scalar", T |-> "INT64", jstype |-> j] : j \in JsTypesOf("INT64")}

\* One field of every kind the resolver knows.
TypeFields ==
    UNION {{TypeField("scalar", T, j, None, NoValue, l[1], l[2]) :
              j \in JsTypesOf(T), l \in Labels} : T \in ScalarTypes}
    \cup {TypeField(k[1], k[2], None, None, NoValue, l[1], l[2]) :
              k \in {<<"enum", "Color">>, <<"message", "Point">>}, l \in Labels}
    \cup {TypeField("map", None, None, K, V, FALSE, FALSE) :
              K \in MapKeyTypes, V \in MapValues}

TypeMessages == {<<f>> : f \in TypeFields}

\* The generator after construction, with `messages` (typeName -> descriptor
\* fields) known to the Interpreter as `infos`, and an empty source file.
Start(o, messages, infos) ==
    /\ options = o
    /\ descriptors = messages
    /\ interpreter = infos
    /\ frame = [k \in Frames |-> IdleFrame]
    /\ statements = <<>>
    /\ thrown = <<>>
    /\ calls = 0

\* A file that declares the message Sample and the message Shape.
WithShape(sample) ==
    [t \in {"Sample", "Shape"} |-> IF t = "Sample" THEN sample ELSE Shape]

\* A file that declares the message Sample alone.
Alone(sample) == [t \in {"Sample"} |-> sample]

Interpreted(messages, o) ==
    [t \in DOMAIN messages |-> getMessageType(messages[t], o.normalLongType)]

\* Sample alone, with optional fields, under the default options.
InitStruct ==
    \E sample \in StructMessages :
        LET o == [oneofKindDiscriminator |-> "oneofKind",
                  normalLongType |-> "STRING"]
        IN  Start(o, Alone(sample), Interpreted(Alone(sample), o))

\* Sample, without optional fields, and Shape: under the default options, and
\* under the discriminator "kind" and the native-number long representation.
InitPair ==
    \E sample \in {m \in StructMessages : \A j \in DOMAIN m : ~m[j].optional} :
      \E o \in {[oneofKindDiscriminator |-> "oneofKind",
                 normalLongType |-> "STRING"],
                [oneofKindDiscriminator |-> "kind",
                 normalLongType |-> "NUMBER"]} :
        Start(o, WithShape(sample), Interpreted(WithShape(sample), o))

\* One field of any kind, under each of the three long representations.
InitTypes ==
    \E l \in LongTypes : \E sample \in TypeMessages :
        LET o == [oneofKindDiscriminator |-> "oneofKind", normalLongType |-> l]
        IN  Start(o, Alone(sample), Interpreted(Alone(sample), o))

Init == InitStruct \/ InitPair \/ InitTypes

Spec == Init /\ [][Next]_vars

(***************************************************************************)
(* Inputs that break the contract between descriptors and field metadata   *)
(***************************************************************************)
\* Field metadata `infos` with the field at position `at` broken: a kind
\* outside the closed set, a number no descriptor field has, or no oneof name.
Broken(infos, at, what) ==
    CASE what = "kind" -> [infos EXCEPT ![at].kind = "group"]
      [] what = "number" -> [infos EXCEPT ![at].no = 0]
      [] what = "oneof" -> [infos EXCEPT ![at].oneof = None]
      [] OTHER -> infos

\* The ways the metadata of message m can be broken, and "none".
Defects(m) ==
    {<<0, "none">>}
    \cup {<<j, w>> : j \in DOMAIN m, w \in {"kind", "number"}}
    \cup {<<j, "oneof">> : j \in {h \in DOMAIN m : m[h].oneof # None}}

InitContract ==
    \E sample \in {m \in StructMessages : \A j \in DOMAIN m : ~m[j].optional} :
      \E defect \in Defects(sample) :
        LET o == [oneofKindDiscriminator |-> "oneofKind",
                  normalLongType |-> "STRING"]
            infos == Interpreted(WithShape(sample), o)
        IN  Start(o, WithShape(sample),
                  [infos EXCEPT !["Sample"] = Broken(@, defect[1], defect[2])])

SpecContract == InitContract /\ [][Next]_vars

(***************************************************************************)
(* Vocabulary of the properties, in terms of the declared message          *)
(***************************************************************************)
\* The descriptor fields of the message a class declaration was generated for.
DeclaredFields(class) == descriptors[class.name.symbol]

FieldInfos(class) == interpreter[class.name.symbol]

Parameters(class) == class.members[1].parameters

InGroup(fields, j) == fields[j].oneof # None

\* Field j is the first declared member of its oneof.
FirstOfGroup(fields, j) ==
    /\ InGroup(fields, j)
    /\ \A h \in 1..(j - 1) : fields[h].oneof # fields[j].oneof

\* The fields that are to yield a parameter.
Emitting(fields) ==
    {j \in DOMAIN fields : ~InGroup(fields, j) \/ FirstOfGroup(fields, j)}

\* The position, among the parameters, of the parameter field j is to yield.
Slot(fields, j) == Cardinality({h \in Emitting(fields) : h <= j})

GroupsOf(fields) == {fields[j].oneof : j \in DOMAIN fields} \ {None}

\* The positions of the members of oneof g, in declaration order.
MembersOf(fields, g) == SelectSeq([j \in DOMAIN fields |-> j],
                                  LAMBDA j : fields[j].oneof = g)

ExpectedName(fields, j) ==
    IF InGroup(fields, j) THEN oneofLocalName(fields[j].oneof)
    ELSE fields[j].localName

WithoutArray(type) == IF type.node = "array" THEN type.elem ELSE type

LongKeyword(longType) ==
    CASE longType = "STRING" -> "string"
      [] longType = "NUMBER" -> "number"
      [] longType = "BIGINT" -> "bigint"

ClassesOf(typeName) ==
    {c \in DOMAIN statements : statements[c].name.symbol = typeName}

(***************************************************************************)
(* Properties                                                              *)
(***************************************************************************)
\* C1: every class declaration has one parameter per field outside a oneof,
\* named by the field's localName, and one per oneof, named by the oneof's
\* local name and placed where the oneof's first member is declared; later
\* members yield nothing.  The parameter count is the number of fields outside
\* oneofs plus the number of distinct oneofs.
C1_ParametersFollowDeclarationOrder ==
    \A c \in DOMAIN statements :
        LET fields == DeclaredFields(statements[c])
            params == Parameters(statements[c])
        IN  /\ Len(params) =
                  Cardinality({j \in DOMAIN fields : ~InGroup(fields, j)})
                  + Cardinality(GroupsOf(fields))
            /\ \A j \in Emitting(fields) :
                  /\ Slot(fields, j) \in DOMAIN params
                  /\ params[Slot(fields, j)].name = ExpectedName(fields, j)

\* The class of message Shape has the parameters width, area, selector.
C1_Witness ==
    \E c \in DOMAIN statements :
        /\ statements[c].name.symbol = "Shape"
        /\ [p \in DOMAIN Parameters(statements[c]) |->
               Parameters(statements[c])[p].name]
           = <<"width", "area", "selector">>

\* C2: the union generated for a oneof of N members has N+1 cases; case i is
\* a record of the discriminator, typed as the literal name of the i-th
\* declared member, and of a property named like that member; the last case
\* holds the discriminator alone, typed undefined.
C2_UnionHasOneCasePerMemberThenEmpty ==
    \A c \in DOMAIN statements :
        LET fields == DeclaredFields(statements[c])
            params == Parameters(statements[c])
        IN  \A j \in {h \in Emitting(fields) : InGroup(fields, h)} :
                LET union == params[Slot(fields, j)].type
                    members == MembersOf(fields, fields[j].oneof)
                    N == Len(members)
                IN  /\ union.node = "union"
                    /\ Len(union.cases) = N + 1
                    /\ \A m \in 1..N :
                          LET case == union.cases[m]
                          IN  /\ case.node = "typeLiteral"
                              /\ Len(case.members) = 2
                              /\ case.members[1].name
                                    = options.oneofKindDiscriminator
                              /\ case.members[1].type
                                    = LiteralTypeNode(fields[members[m]].localName)
                              /\ case.members[2].name
                                    = fields[members[m]].localName
                    /\ union.cases[N + 1].node = "typeLiteral"
                    /\ Len(union.cases[N + 1].members) = 1
                    /\ union.cases[N + 1].members[1].name
                          = options.oneofKindDiscriminator
                    /\ union.cases[N + 1].members[1].type
                          = KeywordTypeNode("undefined")

\* Under the discriminator "kind", Shape's selector is
\* {kind:"label",..} | {kind:"anchor",..} | {kind:undefined}.
C2_Witness ==
    /\ options.oneofKindDiscriminator = "kind"
    /\ \E c \in DOMAIN statements :
          /\ statements[c].name.symbol = "Shape"
          /\ Len(Parameters(statements[c])) = 3
          /\ Parameters(statements[c])[3].type.node = "union"
          /\ Len(Parameters(statements[c])[3].type.cases) = 3
          /\ Parameters(statements[c])[3].type.cases[2].members[1].type
                = LiteralTypeNode("anchor")

\* C3: a field of a 64-bit integer kind that has no long representation of
\* its own is typed by the configured normalLongType: string, number or
\* bigint.
C3_LongFieldsFollowNormalLongType ==
    \A c \in DOMAIN statements :
        LET fields == DeclaredFields(statements[c])
            params == Parameters(statements[c])
        IN  \A j \in DOMAIN fields :
                (/\ ~InGroup(fields, j)
                 /\ fields[j].kind = "scalar"
                 /\ fields[j].T \in LongScalarTypes
                 /\ fields[j].jstype = None)
                => WithoutArray(params[Slot(fields, j)].type)
                      = KeywordTypeNode(LongKeyword(options.normalLongType))

\* A sfixed64 field without a representation of its own, generated as bigint.
C3_Witness ==
    /\ options.normalLongType = "BIGINT"
    /\ \E c \in DOMAIN statements :
          /\ Len(DeclaredFields(statements[c])) = 1
          /\ Len(Parameters(statements[c])) = 1
          /\ DeclaredFields(statements[c])[1].T = "SFIXED64"
          /\ DeclaredFields(statements[c])[1].jstype = None
          /\ Parameters(statements[c])[1].type = KeywordTypeNode("bigint")

\* C4: the key type of a map field is fixed by the key kind alone: string for
\* a bool key and for every 64-bit integer key (and for a string key), number
\* for the 32-bit integer keys, whatever the configured normalLongType and
\* whatever long representation the field's value carries.
C4_MapKeyTypeIsFixedByKeyKind ==
    \A c \in DOMAIN statements :
        LET fields == DeclaredFields(statements[c])
            params == Parameters(statements[c])
        IN  \A j \in DOMAIN fields :
                (~InGroup(fields, j) /\ fields[j].kind = "map")
                => LET key == params[Slot(fields, j)].type.key
                   IN  /\ fields[j].K \in {"BOOL"} \cup LongScalarTypes
                            => key = KeywordTypeNode("string")
                       /\ key = IF fields[j].K \in NumberScalarTypes
                                THEN KeywordTypeNode("number")
                                ELSE KeywordTypeNode("string")

\* A map<uint64, int64> whose value carries the bigint representation, under
\* the native-number default: the key is string.
C4_Witness ==
    /\ options.normalLongType = "NUMBER"
    /\ \E c \in DOMAIN statements :
          /\ Len(DeclaredFields(statements[c])) = 1
          /\ Len(Parameters(statements[c])) = 1
          /\ DeclaredFields(statements[c])[1].kind = "map"
          /\ DeclaredFields(statements[c])[1].K = "UINT64"
          /\ DeclaredFields(statements[c])[1].V.jstype = "BIGINT"
          /\ Parameters(statements[c])[1].type.key = KeywordTypeNode("string")
          /\ Parameters(statements[c])[1].type.value = KeywordTypeNode("bigint")

\* C5: two invocations for the same message return structurally identical
\* class declarations (the declaration returned is the statement added).
C5_SameMessageSameDeclaration ==
    \A a, b \in DOMAIN statements :
        statements[a].name = statements[b].name => statements[a] = statements[b]

\* Sample, which has a oneof, was generated twice.
C5_Witness ==
    /\ Len(statements) = 2
    /\ statements[1].name.symbol = "Sample"
    /\ statements[2].name.symbol = "Sample"
    /\ GroupsOf(descriptors["Sample"]) # {}
    /\ Len(descriptors["Sample"]) >= 2

\* The field metadata of message typeName breaks the contract at position j:
\* a kind outside the closed set, no descriptor field of the same number, or a
\* member of a oneof whose metadata carries no oneof name.
ViolatesAt(typeName, j) ==
    LET fieldInfo == interpreter[typeName][j]
        d == findDescField(descriptors[typeName], fieldInfo.no)
    IN  \/ fieldInfo.kind \notin FieldKinds
        \/ d = 0
        \/ d # 0 /\ descriptors[typeName][d].oneof # None
                 /\ fieldInfo.oneof = None

Violates(typeName) ==
    \E j \in DOMAIN interpreter[typeName] : ViolatesAt(typeName, j)

\* C6: a message with a field of a kind outside {scalar, enum, message, map},
\* or a field without a descriptor field of its number, or a oneof member
\* whose metadata carries no oneof name, never gets through the loop and never
\* gets a class statement in the source file.
C6_ContractViolationEmitsNothing ==
    /\ \A c \in DOMAIN statements : ~Violates(statements[c].name.symbol)
    /\ \A k \in Frames :
          (/\ frame[k].pc = "loop"
           /\ frame[k].i > Len(interpreter[frame[k].descMessage]))
          => ~Violates(frame[k].descMessage)

\* C7: a parameter carries the question token exactly when it stands for a
\* field outside any oneof whose optional flag is set; the parameter of a
\* oneof never carries it, whatever the optional flags of the members.
C7_OptionalMarker ==
    \A c \in DOMAIN statements :
        LET fields == DeclaredFields(statements[c])
            params == Parameters(statements[c])
        IN  \A j \in Emitting(fields) :
                params[Slot(fields, j)].questionToken
                    = (~InGroup(fields, j) /\ fields[j].optional)

\* An optional field outside any oneof, marked, beside a oneof whose members
\* are all optional, unmarked.
C7_Witness ==
    \E c \in DOMAIN statements :
        LET fields == DeclaredFields(statements[c])
            params == Parameters(statements[c])
        IN  /\ Len(fields) = 3
            /\ Len(params) = 2
            /\ ~InGroup(fields, 1) /\ fields[1].optional
            /\ InGroup(fields, 2) /\ fields[2].optional
            /\ fields[3].oneof = fields[2].oneof /\ fields[3].optional
            /\ params[1].questionToken
            /\ ~params[2].questionToken

\* The type createTypeNode is to give a field, from its metadata.
ExpectedType(fieldInfo) ==
    LET base == createBaseTypeNode(fieldInfo)
    IN  IF fieldInfo.repeat THEN ArrayTypeNode(base) ELSE base

\* C8: the type of a field is the array of its base type exactly when the
\* field is repeated, and the bare base type otherwise, whether the field is
\* optional or not; this holds of the parameters of fields outside oneofs and
\* of the value properties of oneof members.
C8_ArrayExactlyWhenRepeated ==
    \A c \in DOMAIN statements :
        LET fields == DeclaredFields(statements[c])
            infos == FieldInfos(statements[c])
            params == Parameters(statements[c])
        IN  /\ \A j \in {h \in DOMAIN fields : ~InGroup(fields, h)} :
                  LET type == params[Slot(fields, j)].type
                  IN  /\ (type.node = "array") = fields[j].repeated
                      /\ createBaseTypeNode(infos[j]).node # "array"
                      /\ type = ExpectedType(infos[j])
            /\ \A j \in {h \in Emitting(fields) : InGroup(fields, h)} :
                  LET members == MembersOf(fields, fields[j].oneof)
                      union == params[Slot(fields, j)].type
                  IN  \A m \in DOMAIN members :
                          LET type == union.cases[m].members[2].type
                          IN  /\ (type.node = "array")
                                    = fields[members[m]].repeated
                              /\ type = ExpectedType(infos[members[m]])

\* A repeated enum field, generated as an array of the enum's type.
C8_Witness ==
    \E c \in DOMAIN statements :
        /\ Len(DeclaredFields(statements[c])) = 1
        /\ Len(Parameters(statements[c])) = 1
        /\ DeclaredFields(statements[c])[1].kind = "enum"
        /\ DeclaredFields(statements[c])[1].repeated
        /\ Parameters(statements[c])[1].type
              = ArrayTypeNode(TypeReferenceNode(typeByName("Color")))

\* The oneofs with a member among the first n fields.
GroupsSeen(fields, n) == {fields[j].oneof : j \in 1..n} \ {None}

NamedLike(params, name) == {p \in DOMAIN params : params[p].name = name}

\* C9: the processed-oneofs list is empty when an invocation starts and holds
\* exactly the oneofs this invocation has met, whatever the other invocation
\* is doing, so that the parameters built so far, and every class declaration
\* added, hold one parameter for each oneof.
C9_ProcessedOneofsArePerInvocation ==
    /\ \A k \in Frames :
          frame[k].pc = "loop" =>
              LET fields == descriptors[frame[k].descMessage]
                  seen == GroupsSeen(fields, frame[k].i - 1)
              IN  /\ frame[k].i = 1 => frame[k].processedOneofs = <<>>
                  /\ Range(frame[k].processedOneofs)
                        = {oneofLocalName(g) : g \in seen}
                  /\ \A g \in seen :
                        Cardinality(NamedLike(frame[k].ctorParams,
                                              oneofLocalName(g))) = 1
    /\ \A c \in DOMAIN statements :
          \A g \in GroupsOf(DeclaredFields(statements[c])) :
              Cardinality(NamedLike(Parameters(statements[c]),
                                    oneofLocalName(g))) = 1

\* Two invocations in flight, for Sample and for Shape, each past a oneof
\* named selector.
C9_Witness ==
    /\ frame[1].pc = "loop" /\ frame[2].pc = "loop"
    /\ frame[1].descMessage # frame[2].descMessage
    /\ "selector" \in Range(frame[1].processedOneofs)
    /\ "selector" \in Range(frame[2].processedOneofs)

\* Activation k returns normally in this step.
Completes(k) ==
    /\ frame[k].pc = "loop"
    /\ frame'[k].pc = "idle"
    /\ thrown' = thrown

\* C10: an invocation that completes without error puts exactly one class
\* statement, for its message, at the end of the source file and leaves the
\* statements before it as they were, also when the file already holds a class
\* for that message; no other step changes the file.
C10_CompletionAppendsOneClass ==
    [][/\ \A k \in Frames :
             Completes(k) =>
                 /\ Len(statements') = Len(statements) + 1
                 /\ SubSeq(statements', 1, Len(statements)) = statements
                 /\ statements'[Len(statements')].node = "class"
                 /\ statements'[Len(statements')].name
                       = importsType(frame[k].descMessage)
                 /\ Cardinality({c \in DOMAIN statements' :
                                    statements'[c].name
                                        = importsType(frame[k].descMessage)})
                    = Cardinality(ClassesOf(frame[k].descMessage)) + 1
       /\ (\A k \in Frames : ~Completes(k)) => statements' = statements]_vars

\* Two invocations for Sample have completed and the file holds two classes
\* for it.
C10_Witness ==
    /\ calls = 2
    /\ \A k \in Frames : frame[k].pc = "idle"
    /\ Cardinality(ClassesOf("Sample")) = 2

====
